---- MODULE Spec2Model ----
(***************************************************************************)
(* Crowd monitoring server: the ingestion handler POST /crowd_data/:url,   *)
(* its helpers (hashMac, getStatus, clampPrediction) and the tables it     *)
(* reads and writes, as a state machine.  One step of a handler is the     *)
(* code between two awaits; the database clock may advance between any two *)
(* steps.                                                                  *)
(***************************************************************************)
EXTENDS Integers, Sequences, FiniteSets, TLC

\* ------------------------------------------------------------------ bounds
MaxTicks == 2
MaxInFlight == 1
MaxRequests == 2
MaxBatchLen == 2
MaxCount == 4
MaxThreshold == 3
MaxDevices == 2
MaxListLen == 3
MaxSnapshots == 3

\* ------------------------------------------------------- program constants
WindowSeconds == 60
DefaultSafe == 30
DefaultNormal == 50
DefaultWarning == 80
DefaultDanger == 120
DefaultLimit == 100
MaxLimit == 1000

Procs == {"p1", "p2"}
Macs == {"m1", "m2"}
UrlParams == {<<"1">>, <<"2">>, <<"9">>}
TickSteps == {1, WindowSeconds}
ThresholdFields == {"safe", "normal", "warning", "danger"}

\* ------------------------------------------------------------ input domains
CountInputs ==
  (0..MaxCount) \cup {DefaultNormal - 1, DefaultNormal, DefaultWarning - 1, DefaultWarning,
                      DefaultDanger - 1, DefaultDanger}

\* threshold records: any subset of the four columns, any small values in any order
ThresholdInputs == UNION {[S -> 0..MaxThreshold] : S \in SUBSET ThresholdFields}

\* ------------------------------------------------------------ pure helpers
Range(s) == {s[k] : k \in 1..Len(s)}

RECURSIVE SeqsUpTo(_, _)
SeqsUpTo(S, n) ==
  IF n = 0 THEN {<<>>}
  ELSE LET shorter == SeqsUpTo(S, n - 1)
       IN  shorter \cup {Append(s, x) : s \in {t \in shorter : Len(t) = n - 1}, x \in S}

Orderings(S) == {s \in SeqsUpTo(S, Cardinality(S)) : Len(s) = Cardinality(S) /\ Range(s) = S}

Batches == SeqsUpTo(Macs, MaxBatchLen)

\* identifier lists of two snapshots
ListItems == {"x", "y", "z", "w"}
ListInputs == SeqsUpTo(ListItems, MaxListLen)

\* crypto sha256 digest: deterministic and (collisions aside) injective
hashMac(mac) == <<"sha256", mac>>

\* t.f ?? d : the field when the record carries it, else the default
Coalesce(t, f, d) == IF f \in DOMAIN t THEN t[f] ELSE d

getStatusStrict(headcount, threshold) ==
  LET normal == Coalesce(threshold, "normal", DefaultNormal)
      warning == Coalesce(threshold, "warning", DefaultWarning)
      danger == Coalesce(threshold, "danger", DefaultDanger)
  IN  IF headcount > danger THEN "danger"
      ELSE IF headcount > warning THEN "warning"
      ELSE IF headcount > normal THEN "normal"
      ELSE "safe"

getStatusLowestFirst(headcount, threshold) ==
  LET normal == Coalesce(threshold, "normal", DefaultNormal)
      warning == Coalesce(threshold, "warning", DefaultWarning)
      danger == Coalesce(threshold, "danger", DefaultDanger)
  IN  IF headcount >= normal THEN "normal"
      ELSE IF headcount >= warning THEN "warning"
      ELSE IF headcount >= danger THEN "danger"
      ELSE "safe"

getStatus(headcount, threshold) ==
  LET safe == IF "safe" \in DOMAIN threshold THEN threshold["safe"]
              ELSE Coalesce(threshold, "safe_count", DefaultSafe)
      normal == Coalesce(threshold, "normal", DefaultNormal)
      warning == Coalesce(threshold, "warning", DefaultWarning)
      danger == Coalesce(threshold, "danger", DefaultDanger)
  IN  IF headcount >= danger THEN "danger"
      ELSE IF headcount >= warning THEN "warning"
      ELSE IF headcount >= normal THEN "normal"
      ELSE "safe"

\* Math.round is the identity on the integers the handlers pass
clampPredictionNoClamp(v) == v

clampPrediction(v) == IF v < 0 THEN 0 ELSE v

RECURSIVE Gcd(_, _)
Gcd(a, b) == IF b = 0 THEN a ELSE Gcd(b, a % b)

\* a / b on numbers, b > 0: the quotient as a fraction in lowest terms
Divide(a, b) == [num |-> a \div Gcd(a, b), den |-> b \div Gcd(a, b)]

\* 1 - q
OneMinus(q) == Divide(q.den - q.num, q.den)

analyzeMobilityCountsDuplicates(listA, listB) ==
  LET setA == Range(listA)
      setB == Range(listB)
      intersection == {x \in setA : x \in setB}
      union == setA \cup setB
  IN  IF Cardinality(union) = 0
      THEN [jaccard |-> [num |-> 1, den |-> 1], mobility |-> [num |-> 0, den |-> 1],
            intersection |-> intersection, union |-> union]
      ELSE LET jaccard == Divide(Cardinality(intersection), Len(listA) + Len(listB))
           IN  [jaccard |-> jaccard, mobility |-> OneMinus(jaccard),
                intersection |-> intersection, union |-> union]

\* 0 / 0 is NaN, written 0/0
analyzeMobilityNoEmptyPolicy(listA, listB) ==
  LET setA == Range(listA)
      setB == Range(listB)
      intersection == {x \in setA : x \in setB}
      union == setA \cup setB
  IN  IF Cardinality(union) = 0
      THEN [jaccard |-> [num |-> 0, den |-> 0], mobility |-> [num |-> 0, den |-> 0],
            intersection |-> intersection, union |-> union]
      ELSE LET jaccard == Divide(Cardinality(intersection), Cardinality(union))
           IN  [jaccard |-> jaccard, mobility |-> OneMinus(jaccard),
                intersection |-> intersection, union |-> union]

analyzeMobilityOverFirst(listA, listB) ==
  LET setA == Range(listA)
      setB == Range(listB)
      intersection == {x \in setA : x \in setB}
      union == setA \cup setB
  IN  IF Cardinality(union) = 0 \/ setA = {}
      THEN [jaccard |-> [num |-> 1, den |-> 1], mobility |-> [num |-> 0, den |-> 1],
            intersection |-> intersection, union |-> union]
      ELSE LET jaccard == Divide(Cardinality(intersection), Cardinality(setA))
           IN  [jaccard |-> jaccard, mobility |-> OneMinus(jaccard),
                intersection |-> intersection, union |-> union]

analyzeMobility(listA, listB) ==
  LET setA == Range(listA)
      setB == Range(listB)
      intersection == {x \in setA : x \in setB}
      union == setA \cup setB
  IN  IF Cardinality(union) = 0
      THEN [jaccard |-> [num |-> 1, den |-> 1], mobility |-> [num |-> 0, den |-> 1],
            intersection |-> intersection, union |-> union]
      ELSE LET jaccard == Divide(Cardinality(intersection), Cardinality(union))
               mobility == OneMinus(jaccard)
           IN  [jaccard |-> jaccard, mobility |-> mobility,
                intersection |-> intersection, union |-> union]

\* url LIKE '%' + uniqUrl : the stored url ends with the request parameter
UrlLike(url, uniqUrl) ==
  /\ Len(uniqUrl) <= Len(url)
  /\ SubSeq(url, Len(url) - Len(uniqUrl) + 1, Len(url)) = uniqUrl


\* ------------------------------------------------------------------- state
VARIABLES
  clock,                \* the clock read by new Date(), NOW() and CURRENT_TIMESTAMP (seconds)
  nticks,               \* how many times the clock has advanced
  devices,              \* table devices: rows [id, url]
  threshold,            \* table threshold: rows [id, device_id, safe, normal, warning, danger]
  device_neighbors,     \* table device_neighbors: rows [device_id, neighbor_device_id]
  webhooks,             \* table webhooks: rows [device_id, url]
  tracked_devices,      \* table tracked_devices (committed rows)
  device_observations,  \* table device_observations (committed rows, in commit order)
  crowd_data,           \* table crowd_data (committed rows)
  alerts,               \* table alerts (committed rows)
  autoinc,              \* AUTO_INCREMENT counters of the tables
  pc,                   \* per request handler: the statement it awaits next
  h,                    \* per request handler: its local variables
  tx,                   \* per request handler: the uncommitted writes of its transaction
  calls,                \* axios.post calls started by the handlers
  hist,                 \* history: one entry per request received, with its response
  fnArgs,               \* arguments of a helper called on its own
  fnRes                 \* its result

dbVars == <<devices, threshold, device_neighbors, webhooks>>
tableVars == <<tracked_devices, device_observations, crowd_data, alerts>>
fnVars == <<fnArgs, fnRes>>
vars == <<clock, nticks, devices, threshold, device_neighbors, webhooks, tracked_devices,
          device_observations, crowd_data, alerts, autoinc, pc, h, tx, calls, hist,
          fnArgs, fnRes>>

NoThreshold == [id |-> 0, device_id |-> 0, safe |-> 0, normal |-> 0, warning |-> 0, danger |-> 0]

NoLocals ==
  [ing |-> 0, dev |-> 0, th |-> NoThreshold, macs |-> <<>>, now |-> 0, trackedIds |-> <<>>,
   snap |-> 0, seen |-> {}, headcount |-> 0, status |-> "", crowdDataId |-> 0,
   allDeviceIds |-> <<>>, curMap |-> <<>>, prevMap |-> <<>>,
   tCount |-> 0, tCur |-> 0, tPrev |-> 0, body |-> <<>>, thRows |-> {},
   row |-> 0]

NoTx == [tracked |-> {}, obs |-> <<>>, crowd |-> <<>>, alerts |-> <<>>]

TxPcs == {"insertTracked", "selectIds", "insertObs", "count", "insertCrowd", "insertAlert",
          "selectWebhooks", "selectNeighbors", "getCur", "getPrev", "selectInfos", "commit"}

InitTables ==
  /\ devices = {[id |-> 1, url |-> <<"d", "1">>], [id |-> 2, url |-> <<"d", "2">>]}
  /\ threshold = {[id |-> 1, device_id |-> 1, safe |-> 0, normal |-> 1, warning |-> 2, danger |-> 3],
                  [id |-> 2, device_id |-> 2, safe |-> -1, normal |-> 0, warning |-> 1, danger |-> 2]}
  /\ device_neighbors = {[device_id |-> 1, neighbor_device_id |-> 2],
                         [device_id |-> 2, neighbor_device_id |-> 2]}
  /\ webhooks = {[device_id |-> 1, url |-> "hook"]}
  /\ tracked_devices = {}
  /\ device_observations = <<>>
  /\ crowd_data = <<>>
  /\ alerts = <<>>
  /\ autoinc = [tracked |-> 1, crowd |-> 1, alert |-> 1, device |-> 3, threshold |-> 3]

InitHandlers ==
  /\ clock = 0
  /\ nticks = 0
  /\ pc = [p \in Procs |-> "idle"]
  /\ h = [p \in Procs |-> NoLocals]
  /\ tx = [p \in Procs |-> NoTx]
  /\ calls = {}
  /\ hist = <<>>

Init ==
  /\ InitTables
  /\ InitHandlers
  /\ fnArgs = <<>>
  /\ fnRes = <<>>

\* ---------------------------------------------------------------- queries
\* what the connection of handler p reads from device_observations: the rows committed
\* when its transaction took its snapshot, then its own inserts
ObsViewOwnOnly(p) == tx[p].obs

ObsView(p) == SubSeq(device_observations, 1, h[p].snap) \o tx[p].obs

CountDistinctAll(rows, ks) == Cardinality(ks)

\* COUNT(DISTINCT tracked_device_id) over the rows of view at the positions ks
CountDistinct(rows, ks) == Cardinality({rows[k].tracked_device_id : k \in ks})

\* SELECT COUNT(DISTINCT tracked_device_id) ... WHERE device_id = ? AND
\*   observed_at >= DATE_SUB(NOW(), INTERVAL ? SECOND)
CurrentCount(rows, deviceId, nowDb, windowSeconds) ==
  CountDistinct(rows, {k \in 1..Len(rows) :
                         /\ rows[k].device_id = deviceId
                         /\ rows[k].observed_at >= nowDb - windowSeconds})

getCountsBoundaryInPrevious(rows, allDeviceIds, nowDb, startOffsetSec, endOffsetSec) ==
  LET inWindow == {k \in 1..Len(rows) :
                     /\ rows[k].device_id \in Range(allDeviceIds)
                     /\ rows[k].observed_at > nowDb - startOffsetSec
                     /\ (endOffsetSec > 0 => rows[k].observed_at <= nowDb - endOffsetSec)}
      groups == {rows[k].device_id : k \in inWindow}
  IN  [d \in groups |-> CountDistinct(rows, {k \in inWindow : rows[k].device_id = d})]

getCountsNeverExpires(rows, allDeviceIds, nowDb, startOffsetSec, endOffsetSec) ==
  LET inWindow == {k \in 1..Len(rows) :
                     /\ rows[k].device_id \in Range(allDeviceIds)
                     /\ (endOffsetSec > 0 => rows[k].observed_at < nowDb - endOffsetSec)}
      groups == {rows[k].device_id : k \in inWindow}
  IN  [d \in groups |-> CountDistinct(rows, {k \in inWindow : rows[k].device_id = d})]

\* the SELECT of getCounts: one row per device_id that has a row in the window
getCounts(rows, allDeviceIds, nowDb, startOffsetSec, endOffsetSec) ==
  LET inWindow == {k \in 1..Len(rows) :
                     /\ rows[k].device_id \in Range(allDeviceIds)
                     /\ rows[k].observed_at >= nowDb - startOffsetSec
                     /\ (endOffsetSec > 0 => rows[k].observed_at < nowDb - endOffsetSec)}
      groups == {rows[k].device_id : k \in inWindow}
  IN  [d \in groups |-> CountDistinct(rows, {k \in inWindow : rows[k].device_id = d})]

MapGetUndefined(map, id) == IF id \in DOMAIN map THEN map[id] ELSE -1

\* Number(map.get(id) || 0)
MapGet(map, id) == IF id \in DOMAIN map THEN map[id] ELSE 0

\* one entry of the response's neighbors list
NeighborEntry(id, curMap, prevMap) ==
  LET curr == MapGet(curMap, id)
      prev == MapGet(prevMap, id)
      delta == curr - prev
  IN  [device_id |-> id, current |-> curr, previous |-> prev,
       predicted |-> clampPrediction(curr + delta)]


\* ---------------------------------------------------------------- history
NoHist ==
  [kind |-> "", url |-> <<>>, array |-> TRUE, macs |-> <<>>, code |-> 0, dev |-> 0,
   now |-> 0, headcount |-> 0, status |-> "", crowdDataId |-> 0, fields |-> {},
   error |-> ""]

\* a request is served by the first free handler
ProcOrder(p, q) == p = q \/ <<p, q>> \in {<<"p1", "p2">>}

\* the ingestions that have committed
Committed == {i \in 1..Len(hist) : hist[i].kind = "ingest" /\ hist[i].code = 200}

\* ------------------------------------------------- POST /crowd_data/:uniq_url
\* validation and the two lookups; then getConnection, beginTransaction, new Date()
Receive(p, uniqUrl, macs) ==
  /\ pc[p] = "idle"
  /\ Len(hist) < MaxRequests
  /\ Cardinality({q \in Procs : pc[q] # "idle"}) < MaxInFlight
  /\ \A q \in Procs : pc[q] = "idle" => ProcOrder(p, q)
  /\ LET ing == Len(hist) + 1
         found == {d \in devices : UrlLike(d.url, uniqUrl)}
         entry == [NoHist EXCEPT !.kind = "ingest", !.url = uniqUrl, !.macs = macs]
         reject(code) ==
           /\ hist' = Append(hist, [entry EXCEPT !.code = code])
           /\ UNCHANGED <<pc, h>>
     IN  IF Len(macs) = 0 THEN reject(400)
         ELSE IF found = {} THEN reject(404)
         ELSE \E thisDevice \in found :
                LET thresholds == {t \in threshold : t.id = thisDevice.id}
                IN  IF thresholds = {} THEN reject(500)
                    ELSE \E th \in thresholds :
                           /\ h' = [h EXCEPT ![p] = [NoLocals EXCEPT !.ing = ing,
                                       !.dev = thisDevice.id, !.th = th, !.macs = macs,
                                       !.now = clock]]
                           /\ pc' = [pc EXCEPT ![p] = "insertTracked"]
                           /\ hist' = Append(hist, [entry EXCEPT !.dev = thisDevice.id,
                                                      !.now = clock])
  /\ UNCHANGED <<clock, nticks, dbVars, tableVars, autoinc, tx, calls, fnVars>>

macHashes(p) == [k \in 1..Len(h[p].macs) |-> hashMac(h[p].macs[k])]

\* the row of tracked_devices with this mac_hash as handler p sees it (own write first)
TrackedRows(p, hash) ==
  LET own == {r \in tx[p].tracked : r.mac_hash = hash}
  IN  IF own # {} THEN own ELSE {r \in tracked_devices : r.mac_hash = hash}

\* one row of INSERT ... VALUES (h1, now, now), ... ON DUPLICATE KEY UPDATE
\* last_seen = VALUES(last_seen): acc is [rows: the rows the transaction has written,
\* next: the AUTO_INCREMENT counter]
UpsertTracked(hash, now, acc) ==
  LET written == {r \in acc.rows : r.mac_hash = hash}
      stored == {r \in tracked_devices : r.mac_hash = hash}
      old == IF written # {} THEN written ELSE stored
  IN  IF old = {}
      THEN [rows |-> acc.rows \cup {[id |-> acc.next, mac_hash |-> hash,
                                     first_seen |-> now, last_seen |-> now]},
            next |-> acc.next + 1]
      ELSE [rows |-> (acc.rows \ written) \cup {[r EXCEPT !.last_seen = now] : r \in old},
            next |-> acc.next]

\* a row written by an open transaction stays locked until that transaction ends
LockedByOther(p, hash) ==
  \E q \in Procs \ {p} : \E r \in tx[q].tracked : r.mac_hash = hash

\* the statement takes the rows of its VALUES list one after the other, waiting for the
\* lock of each; it returns after the last
InsertTracked(p) ==
  /\ pc[p] = "insertTracked"
  /\ LET k == h[p].row + 1
         hash == macHashes(p)[k]
         res == UpsertTracked(hash, h[p].now, [rows |-> tx[p].tracked, next |-> autoinc.tracked])
     IN  /\ ~LockedByOther(p, hash)
         /\ tx' = [tx EXCEPT ![p].tracked = res.rows]
         /\ autoinc' = [autoinc EXCEPT !.tracked = res.next]
         /\ h' = [h EXCEPT ![p].row = k]
         /\ pc' = [pc EXCEPT ![p] = IF k = Len(h[p].macs) THEN "selectIds"
                                    ELSE "insertTracked"]
  /\ UNCHANGED <<clock, nticks, dbVars, tableVars, calls, hist, fnVars>>

\* for (const h of macHashes) SELECT id FROM tracked_devices WHERE mac_hash = ?
\* the first consistent read of the transaction: it fixes the snapshot
RECURSIVE SelectTrackedIds(_, _, _)
SelectTrackedIds(p, hashes, k) ==
  IF k > Len(hashes) THEN <<>>
  ELSE LET rows == TrackedRows(p, hashes[k])
       IN  (IF rows = {} THEN <<>> ELSE <<(CHOOSE r \in rows : TRUE).id>>)
             \o SelectTrackedIds(p, hashes, k + 1)

SelectIds(p) ==
  /\ pc[p] = "selectIds"
  /\ h' = [h EXCEPT ![p].trackedIds = SelectTrackedIds(p, macHashes(p), 1),
                    ![p].snap = Len(device_observations),
                    ![p].seen = Committed]
  /\ pc' = [pc EXCEPT ![p] = "insertObs"]
  /\ UNCHANGED <<clock, nticks, dbVars, tableVars, autoinc, tx, calls, hist, fnVars>>

\* INSERT INTO device_observations (tracked_device_id, device_id, observed_at) VALUES ...
InsertObs(p) ==
  /\ pc[p] = "insertObs"
  /\ tx' = [tx EXCEPT ![p].obs = @ \o
              [k \in 1..Len(h[p].trackedIds) |->
                 [tracked_device_id |-> h[p].trackedIds[k], device_id |-> h[p].dev,
                  observed_at |-> h[p].now]]]
  /\ pc' = [pc EXCEPT ![p] = "count"]
  /\ UNCHANGED <<clock, nticks, dbVars, tableVars, autoinc, h, calls, hist, fnVars>>

\* the headcount query, then getStatus
Count(p) ==
  /\ pc[p] = "count"
  /\ LET headcount == CurrentCount(ObsView(p), h[p].dev, clock, WindowSeconds)
     IN  h' = [h EXCEPT ![p].headcount = headcount,
                        ![p].status = getStatus(headcount, h[p].th),
                        ![p].tCount = clock]
  /\ pc' = [pc EXCEPT ![p] = "insertCrowd"]
  /\ UNCHANGED <<clock, nticks, dbVars, tableVars, autoinc, tx, calls, hist, fnVars>>

\* status === 'warning' || status === 'danger'
ShouldAlertAlways(status) == TRUE

ShouldAlert(status) == status = "warning" \/ status = "danger"

\* INSERT INTO crowd_data (device_id, headcount, status, wifi_list)
InsertCrowd(p) ==
  /\ pc[p] = "insertCrowd"
  /\ tx' = [tx EXCEPT ![p].crowd = Append(@,
              [id |-> autoinc.crowd, device_id |-> h[p].dev, headcount |-> h[p].headcount,
               status |-> h[p].status, wifi_list |-> h[p].macs, created_at |-> clock])]
  /\ autoinc' = [autoinc EXCEPT !.crowd = @ + 1]
  /\ h' = [h EXCEPT ![p].crowdDataId = autoinc.crowd]
  /\ pc' = [pc EXCEPT ![p] = IF ShouldAlert(h[p].status) THEN "insertAlert"
                             ELSE "selectNeighbors"]
  /\ UNCHANGED <<clock, nticks, dbVars, tableVars, calls, hist, fnVars>>

\* INSERT INTO alerts (device_id, crowd_data_id, alert_type, level, message)
InsertAlert(p) ==
  /\ pc[p] = "insertAlert"
  /\ tx' = [tx EXCEPT ![p].alerts = Append(@,
              [id |-> autoinc.alert, device_id |-> h[p].dev,
               crowd_data_id |-> h[p].crowdDataId, alert_type |-> "density",
               level |-> h[p].status])]
  /\ autoinc' = [autoinc EXCEPT !.alert = @ + 1]
  /\ pc' = [pc EXCEPT ![p] = "selectWebhooks"]
  /\ UNCHANGED <<clock, nticks, dbVars, tableVars, h, calls, hist, fnVars>>

\* SELECT url FROM webhooks WHERE device_id = ?, then axios.post for each row, not awaited
SelectWebhooks(p) ==
  /\ pc[p] = "selectWebhooks"
  /\ calls' = calls \cup
       {[ing |-> h[p].ing, url |-> w.url, deviceId |-> h[p].dev,
         crowdDataId |-> h[p].crowdDataId, headcount |-> h[p].headcount,
         status |-> h[p].status, state |-> "pending"] :
          w \in {r \in webhooks : r.device_id = h[p].dev}}
  /\ pc' = [pc EXCEPT ![p] = "selectNeighbors"]
  /\ UNCHANGED <<clock, nticks, dbVars, tableVars, autoinc, h, tx, hist, fnVars>>

\* SELECT neighbor_device_id FROM device_neighbors WHERE device_id = ? (rows in any order)
SelectNeighbors(p) ==
  /\ pc[p] = "selectNeighbors"
  /\ \E neighborIds \in Orderings({r.neighbor_device_id :
                                     r \in {e \in device_neighbors : e.device_id = h[p].dev}}) :
       h' = [h EXCEPT ![p].allDeviceIds = <<h[p].dev>> \o neighborIds]
  /\ pc' = [pc EXCEPT ![p] = "getCur"]
  /\ UNCHANGED <<clock, nticks, dbVars, tableVars, autoinc, tx, calls, hist, fnVars>>

\* const curMap = await getCounts(windowSeconds, 0)
GetCur(p) ==
  /\ pc[p] = "getCur"
  /\ h' = [h EXCEPT ![p].curMap = getCounts(ObsView(p), h[p].allDeviceIds, clock,
                                            WindowSeconds, 0),
                    ![p].tCur = clock]
  /\ pc' = [pc EXCEPT ![p] = "getPrev"]
  /\ UNCHANGED <<clock, nticks, dbVars, tableVars, autoinc, tx, calls, hist, fnVars>>

\* const prevMap = await getCounts(windowSeconds * 2, windowSeconds)
GetPrev(p) ==
  /\ pc[p] = "getPrev"
  /\ h' = [h EXCEPT ![p].prevMap = getCounts(ObsView(p), h[p].allDeviceIds, clock,
                                             WindowSeconds * 2, WindowSeconds),
                    ![p].tPrev = clock]
  /\ pc' = [pc EXCEPT ![p] = "selectInfos"]
  /\ UNCHANGED <<clock, nticks, dbVars, tableVars, autoinc, tx, calls, hist, fnVars>>

\* SELECT id, device_name, location FROM devices WHERE id IN (...)
SelectInfos(p) ==
  /\ pc[p] = "selectInfos"
  /\ pc' = [pc EXCEPT ![p] = "commit"]
  /\ UNCHANGED <<clock, nticks, dbVars, tableVars, autoinc, h, tx, calls, hist, fnVars>>

\* const neighbors = allDeviceIds.map(...)
Neighbors(p) ==
  [k \in 1..Len(h[p].allDeviceIds) |->
     NeighborEntry(h[p].allDeviceIds[k], h[p].curMap, h[p].prevMap)]

\* res.json({device, headcount, status, window_seconds, neighbors}) of the ingestion
IngestResponse(p) ==
  [device |-> [id |-> h[p].dev], headcount |-> h[p].headcount, status |-> h[p].status,
   window_seconds |-> WindowSeconds, neighbors |-> Neighbors(p)]

\* app.use((err, req, res, next) => ...): the answer to a request whose handler threw
\* err (here the name of the statement that failed)
errorMiddlewareSendsError(err) == [status |-> 500, body |-> [error |-> err]]

errorMiddleware(err) == [status |-> 500, body |-> [error |-> "Internal Server Error"]]

\* the entry of the history when handler p ends with this status code: the fields of
\* the answer's body and, for an error, its message
Responded(p, code) ==
  [hist EXCEPT ![h[p].ing] =
     IF code = 200
     THEN [@ EXCEPT !.code = code, !.headcount = h[p].headcount, !.status = h[p].status,
                    !.crowdDataId = h[p].crowdDataId,
                    !.fields = DOMAIN IngestResponse(p)]
     ELSE LET res == errorMiddleware(pc[p])
          IN  [@ EXCEPT !.code = res.status, !.fields = DOMAIN res.body,
                        !.error = res.body.error]]

\* the tables once the transaction of handler p is made durable
CommittedTables(p) ==
  [tracked |-> {r \in tracked_devices :
                  \A w \in tx[p].tracked : w.mac_hash # r.mac_hash} \cup tx[p].tracked,
   obs |-> device_observations \o tx[p].obs,
   crowd |-> crowd_data \o tx[p].crowd,
   alerts |-> alerts \o tx[p].alerts]

\* the tables once the transaction of handler p is rolled back
RollbackKeepsWrites(p) == CommittedTables(p)

RolledBackTables(p) ==
  [tracked |-> tracked_devices, obs |-> device_observations, crowd |-> crowd_data,
   alerts |-> alerts]

EndTransaction(p, code, tables) ==
  /\ tracked_devices' = tables.tracked
  /\ device_observations' = tables.obs
  /\ crowd_data' = tables.crowd
  /\ alerts' = tables.alerts
  /\ hist' = Responded(p, code)
  /\ pc' = [pc EXCEPT ![p] = "idle"]
  /\ h' = [h EXCEPT ![p] = NoLocals]
  /\ tx' = [tx EXCEPT ![p] = NoTx]
  /\ UNCHANGED <<clock, nticks, dbVars, autoinc, calls, fnVars>>

\* await conn.commit(); res.json(...); conn.release()
Commit(p) ==
  /\ pc[p] = "commit"
  /\ EndTransaction(p, 200, CommittedTables(p))

\* a query of the transaction (or the commit) throws: catch, conn.rollback(), rethrow;
\* the error middleware answers 500
Fail(p) ==
  /\ pc[p] \in TxPcs
  /\ EndTransaction(p, 500, RolledBackTables(p))

\* handler p waits for a tracked_devices row that the transaction of q has written
Waiting(p, q) ==
  /\ pc[p] = "insertTracked"
  /\ \E r \in tx[q].tracked : r.mac_hash = macHashes(p)[h[p].row + 1]

\* two transactions wait for each other: the database aborts one of them, its INSERT
\* throws, the handler rolls back and the error middleware answers 500
Deadlock(p) ==
  /\ \E q \in Procs \ {p} : Waiting(p, q) /\ Waiting(q, p)
  /\ EndTransaction(p, 500, RolledBackTables(p))

\* ------------------------------------------- GET /crowd_data/:uniq_url/latest
\* the two lookups, then pool.getConnection(); no transaction is begun, so every
\* query reads what is committed when it runs
LatestReceive(p, uniqUrl) ==
  /\ pc[p] = "idle"
  /\ Len(hist) < MaxRequests
  /\ Cardinality({q \in Procs : pc[q] # "idle"}) < MaxInFlight
  /\ \A q \in Procs : pc[q] = "idle" => ProcOrder(p, q)
  /\ LET ing == Len(hist) + 1
         found == {d \in devices : UrlLike(d.url, uniqUrl)}
         entry == [NoHist EXCEPT !.kind = "latest", !.url = uniqUrl]
         reject(code) ==
           /\ hist' = Append(hist, [entry EXCEPT !.code = code])
           /\ UNCHANGED <<pc, h>>
     IN  IF found = {} THEN reject(404)
         ELSE \E thisDevice \in found :
                LET thresholds == {t \in threshold : t.id = thisDevice.id}
                IN  IF thresholds = {} THEN reject(500)
                    ELSE \E th \in thresholds :
                           /\ h' = [h EXCEPT ![p] = [NoLocals EXCEPT !.ing = ing,
                                       !.dev = thisDevice.id, !.th = th]]
                           /\ pc' = [pc EXCEPT ![p] = "latestCount"]
                           /\ hist' = Append(hist, [entry EXCEPT !.dev = thisDevice.id])
  /\ UNCHANGED <<clock, nticks, dbVars, tableVars, autoinc, tx, calls, fnVars>>

LatestPcs == {"latestCount", "latestNeighbors", "latestGetCur", "latestGetPrev",
              "latestInfos"}

\* the headcount query, then getStatus
LatestCount(p) ==
  /\ pc[p] = "latestCount"
  /\ LET headcount == CurrentCount(device_observations, h[p].dev, clock, WindowSeconds)
     IN  h' = [h EXCEPT ![p].headcount = headcount,
                        ![p].status = getStatus(headcount, h[p].th),
                        ![p].tCount = clock, ![p].seen = Committed]
  /\ pc' = [pc EXCEPT ![p] = "latestNeighbors"]
  /\ UNCHANGED <<clock, nticks, dbVars, tableVars, autoinc, tx, calls, hist, fnVars>>

LatestNeighbors(p) ==
  /\ pc[p] = "latestNeighbors"
  /\ \E neighborIds \in Orderings({r.neighbor_device_id :
                                     r \in {e \in device_neighbors : e.device_id = h[p].dev}}) :
       h' = [h EXCEPT ![p].allDeviceIds = <<h[p].dev>> \o neighborIds]
  /\ pc' = [pc EXCEPT ![p] = "latestGetCur"]
  /\ UNCHANGED <<clock, nticks, dbVars, tableVars, autoinc, tx, calls, hist, fnVars>>

LatestGetCur(p) ==
  /\ pc[p] = "latestGetCur"
  /\ h' = [h EXCEPT ![p].curMap = getCounts(device_observations, h[p].allDeviceIds, clock,
                                            WindowSeconds, 0),
                    ![p].tCur = clock, ![p].seen = Committed]
  /\ pc' = [pc EXCEPT ![p] = "latestGetPrev"]
  /\ UNCHANGED <<clock, nticks, dbVars, tableVars, autoinc, tx, calls, hist, fnVars>>

LatestGetPrev(p) ==
  /\ pc[p] = "latestGetPrev"
  /\ h' = [h EXCEPT ![p].prevMap = getCounts(device_observations, h[p].allDeviceIds, clock,
                                             WindowSeconds * 2, WindowSeconds),
                    ![p].tPrev = clock, ![p].seen = Committed]
  /\ pc' = [pc EXCEPT ![p] = "latestInfos"]
  /\ UNCHANGED <<clock, nticks, dbVars, tableVars, autoinc, tx, calls, hist, fnVars>>

\* res.json({device, headcount, status, window_seconds, neighbors}) of latest
LatestResponse(p) ==
  [device |-> [id |-> h[p].dev], headcount |-> h[p].headcount, status |-> h[p].status,
   window_seconds |-> WindowSeconds, neighbors |-> Neighbors(p)]

LatestEndStoresSnapshot(p, code) ==
  /\ hist' = Responded(p, code)
  /\ pc' = [pc EXCEPT ![p] = "idle"]
  /\ h' = [h EXCEPT ![p] = NoLocals]
  /\ crowd_data' = Append(crowd_data,
       [id |-> autoinc.crowd, device_id |-> h[p].dev, headcount |-> h[p].headcount,
        status |-> h[p].status, wifi_list |-> <<>>, created_at |-> clock])
  /\ UNCHANGED <<clock, nticks, dbVars, tracked_devices, device_observations, alerts,
                 autoinc, tx, calls, fnVars>>

LatestEnd(p, code) ==
  /\ hist' = Responded(p, code)
  /\ pc' = [pc EXCEPT ![p] = "idle"]
  /\ h' = [h EXCEPT ![p] = NoLocals]
  /\ UNCHANGED <<clock, nticks, dbVars, tableVars, autoinc, tx, calls, fnVars>>

\* the device infos query, then res.json(...); finally conn.release()
LatestRespond(p) ==
  /\ pc[p] = "latestInfos"
  /\ LatestEnd(p, 200)

\* a query throws: finally conn.release(), and the error middleware answers 500
LatestFail(p) ==
  /\ pc[p] \in LatestPcs
  /\ LatestEnd(p, 500)

\* ------------------------------------------------------- the devices router
\* the request bodies' threshold objects: absent, or the four fields, increasing
ThresholdBodies ==
  {t \in ThresholdInputs :
     \/ DOMAIN t = {}
     \/ /\ DOMAIN t = ThresholdFields
        /\ t.safe < t.normal /\ t.normal < t.warning /\ t.warning < t.danger}

DeviceIdParams == 1..(MaxDevices + 1)

\* 'http://example.com/crowd_data/' + device_name + '_' + crypto.randomBytes(8): a url
\* no other device has
FreshUrl(id) == <<"d", ToString(id)>>

\* t.f || d : the default when the field is absent or falsy (0)
OrDefault(t, f, d) == IF f \in DOMAIN t /\ t[f] # 0 THEN t[f] ELSE d

\* threshold.f ?? existing.f ?? d
Nullish(body, existing, f, d) ==
  IF f \in DOMAIN body THEN body[f] ELSE Coalesce(existing, f, d)

\* a handler starts when a connection of the pool serves the request
Accepts(p) ==
  /\ pc[p] = "idle"
  /\ Cardinality({q \in Procs : pc[q] # "idle"}) < MaxInFlight
  /\ \A q \in Procs : pc[q] = "idle" => ProcOrder(p, q)

\* POST /devices with device_name and location: INSERT INTO devices
Register(p, body) ==
  /\ Accepts(p)
  /\ autoinc.device <= MaxDevices
  /\ devices' = devices \cup {[id |-> autoinc.device, url |-> FreshUrl(autoinc.device)]}
  /\ autoinc' = [autoinc EXCEPT !.device = @ + 1]
  /\ h' = [h EXCEPT ![p] = [NoLocals EXCEPT !.dev = autoinc.device, !.body = body]]
  /\ pc' = [pc EXCEPT ![p] = "insertThreshold"]
  /\ UNCHANGED <<clock, nticks, threshold, device_neighbors, webhooks, tableVars, tx, calls,
                 hist, fnVars>>

AdminEnd(p) ==
  /\ pc' = [pc EXCEPT ![p] = "idle"]
  /\ h' = [h EXCEPT ![p] = NoLocals]
  /\ UNCHANGED <<clock, nticks, devices, device_neighbors, webhooks, tableVars, tx, calls,
                 hist, fnVars>>

\* INSERT INTO threshold (device_id, safe, normal, warning, danger); 201
RegisterThreshold(p) ==
  /\ pc[p] = "insertThreshold"
  /\ LET t == h[p].body
     IN  threshold' = threshold \cup
           {[id |-> autoinc.threshold, device_id |-> h[p].dev,
             safe |-> OrDefault(t, "safe", DefaultSafe),
             normal |-> OrDefault(t, "normal", DefaultNormal),
             warning |-> OrDefault(t, "warning", DefaultWarning),
             danger |-> OrDefault(t, "danger", DefaultDanger)]}
  /\ autoinc' = [autoinc EXCEPT !.threshold = @ + 1]
  /\ AdminEnd(p)

\* the INSERT INTO threshold throws: the error middleware answers 500; pool.query runs
\* outside any transaction, so the devices row stays
RegisterFail(p) ==
  /\ pc[p] = "insertThreshold"
  /\ UNCHANGED <<threshold, autoinc>>
  /\ AdminEnd(p)

\* PUT /devices/:id with threshold fields: SELECT * FROM devices WHERE id = ?
UpdateReceive(p, id, body) ==
  /\ Accepts(p)
  /\ \E d \in devices : d.id = id
  /\ DOMAIN body \cap ThresholdFields # {}
  /\ h' = [h EXCEPT ![p] = [NoLocals EXCEPT !.dev = id, !.body = body]]
  /\ pc' = [pc EXCEPT ![p] = "updateSelect"]
  /\ UNCHANGED <<clock, nticks, dbVars, tableVars, autoinc, tx, calls, hist, fnVars>>

\* SELECT * FROM threshold WHERE device_id = ?
UpdateSelect(p) ==
  /\ pc[p] = "updateSelect"
  /\ h' = [h EXCEPT ![p].thRows = {t \in threshold : t.device_id = h[p].dev}]
  /\ pc' = [pc EXCEPT ![p] = "updateWrite"]
  /\ UNCHANGED <<clock, nticks, dbVars, tableVars, autoinc, tx, calls, hist, fnVars>>

\* INSERT INTO threshold when thRows is empty, else UPDATE threshold ... WHERE device_id = ?
UpdateWrite(p) ==
  /\ pc[p] = "updateWrite"
  /\ \E existing \in (IF h[p].thRows = {} THEN {<<>>} ELSE h[p].thRows) :
       LET safe == Nullish(h[p].body, existing, "safe", DefaultSafe)
           normal == Nullish(h[p].body, existing, "normal", DefaultNormal)
           warning == Nullish(h[p].body, existing, "warning", DefaultWarning)
           danger == Nullish(h[p].body, existing, "danger", DefaultDanger)
       IN  IF h[p].thRows = {}
           THEN /\ threshold' = threshold \cup
                     {[id |-> autoinc.threshold, device_id |-> h[p].dev, safe |-> safe,
                       normal |-> normal, warning |-> warning, danger |-> danger]}
                /\ autoinc' = [autoinc EXCEPT !.threshold = @ + 1]
           ELSE /\ threshold' =
                     {IF t.device_id = h[p].dev
                      THEN [t EXCEPT !.safe = safe, !.normal = normal, !.warning = warning,
                                     !.danger = danger]
                      ELSE t : t \in threshold}
                /\ UNCHANGED autoinc
  /\ AdminEnd(p)

\* POST /crowd_data/:uniq_url with a JSON body that is not an array
ReceiveNotArray(p, uniqUrl) ==
  /\ Accepts(p)
  /\ Len(hist) < MaxRequests
  /\ hist' = Append(hist, [NoHist EXCEPT !.kind = "ingest", !.url = uniqUrl,
                                         !.array = FALSE, !.code = 400])
  /\ UNCHANGED <<clock, nticks, dbVars, tableVars, autoinc, pc, h, tx, calls, fnVars>>

\* ------------------------------------------------- GET /crowd_data/analysis
\* Math.min(1000, Number(req.query.limit) || 100); an absent parameter is 0 here
Limit(q) == IF q = 0 THEN DefaultLimit ELSE IF q > MaxLimit THEN MaxLimit ELSE q

\* SELECT ... FROM crowd_data WHERE wifi_list IS NOT NULL ORDER BY created_at DESC LIMIT ?
\* the results the database may return: rows of equal created_at come in any order
SelectRecent(table, limit) ==
  LET n == IF Len(table) < limit THEN Len(table) ELSE limit
      picks == {S \in SUBSET (1..Len(table)) :
                  /\ Cardinality(S) = n
                  /\ \A i \in S, j \in (1..Len(table)) \ S :
                       table[j].created_at <= table[i].created_at}
      orders == {o \in UNION {Orderings(S) : S \in picks} :
                   \A i \in 1..(Len(o) - 1) :
                     table[o[i]].created_at >= table[o[i + 1]].created_at}
  IN  {[i \in 1..Len(o) |-> table[o[i]]] : o \in orders}

\* acc[row.device_id].push(row)
ByDevice(rows, deviceId) == SelectSeq(rows, LAMBDA r : r.device_id = deviceId)

SortKeepsQueryOrder(rows) == rows

\* rows.sort((a, b) => new Date(a.created_at) - new Date(b.created_at)): ascending,
\* rows of equal created_at keep their order
RECURSIVE SortByCreatedAt(_)
SortByCreatedAt(rows) ==
  IF rows = <<>> THEN <<>>
  ELSE LET r == rows[Len(rows)]
           sorted == SortByCreatedAt(SubSeq(rows, 1, Len(rows) - 1))
           k == Cardinality({i \in 1..Len(sorted) : sorted[i].created_at <= r.created_at})
       IN  SubSeq(sorted, 1, k) \o <<r>> \o SubSeq(sorted, k + 1, Len(sorted))

\* q.toFixed(4): the number rounded to four decimals, in ten-thousandths
ToFixed4(q) == (2 * 10000 * q.num + q.den) \div (2 * q.den)

\* the loop over i = 1 .. deviceData.length - 1
Trends(deviceData) ==
  [i \in 1..(Len(deviceData) - 1) |->
     [from |-> deviceData[i].created_at, to |-> deviceData[i + 1].created_at,
      mobility |-> ToFixed4(analyzeMobility(deviceData[i].wifi_list,
                                            deviceData[i + 1].wifi_list).mobility)]]

analysisResults(rows) ==
  [deviceId \in {rows[i].device_id : i \in 1..Len(rows)} |->
     Trends(SortByCreatedAt(ByDevice(rows, deviceId)))]

Analysis ==
  /\ fnRes = <<>>
  /\ fnArgs.fn = "analysis"
  /\ \E rows \in SelectRecent(crowd_data, Limit(fnArgs.limit)) :
       fnRes' = <<[rows |-> rows, body |-> analysisResults(rows)]>>
  /\ UNCHANGED <<clock, nticks, dbVars, tableVars, autoinc, pc, h, tx, calls, hist, fnArgs>>

\* ----------------------------------------------------------- environment
WebhookSettlesRollsBack(c, state) ==
  /\ c \in calls
  /\ c.state = "pending"
  /\ calls' = (calls \ {c}) \cup {[c EXCEPT !.state = state]}
  /\ alerts' = IF state = "failed"
               THEN SelectSeq(alerts, LAMBDA a : a.crowd_data_id # c.crowdDataId)
               ELSE alerts
  /\ UNCHANGED <<clock, nticks, dbVars, tracked_devices, device_observations, crowd_data,
                 autoinc, pc, h, tx, hist, fnVars>>

\* an axios.post promise settles: .then logs success, .catch logs the error
WebhookSettles(c, state) ==
  /\ c \in calls
  /\ c.state = "pending"
  /\ calls' = (calls \ {c}) \cup {[c EXCEPT !.state = state]}
  /\ UNCHANGED <<clock, nticks, dbVars, tableVars, autoinc, pc, h, tx, hist, fnVars>>

Tick(d) ==
  /\ nticks < MaxTicks
  /\ clock' = clock + d
  /\ nticks' = nticks + 1
  /\ UNCHANGED <<dbVars, tableVars, autoinc, pc, h, tx, calls, hist, fnVars>>

Next ==
  \/ \E p \in Procs, uniqUrl \in UrlParams, macs \in Batches : Receive(p, uniqUrl, macs)
  \/ \E p \in Procs : InsertTracked(p)
  \/ \E p \in Procs : SelectIds(p)
  \/ \E p \in Procs : InsertObs(p)
  \/ \E p \in Procs : Count(p)
  \/ \E p \in Procs : InsertCrowd(p)
  \/ \E p \in Procs : InsertAlert(p)
  \/ \E p \in Procs : SelectWebhooks(p)
  \/ \E p \in Procs : SelectNeighbors(p)
  \/ \E p \in Procs : GetCur(p)
  \/ \E p \in Procs : GetPrev(p)
  \/ \E p \in Procs : SelectInfos(p)
  \/ \E p \in Procs : Commit(p)
  \/ \E p \in Procs : Fail(p)
  \/ \E p \in Procs, uniqUrl \in UrlParams : LatestReceive(p, uniqUrl)
  \/ \E p \in Procs : LatestCount(p)
  \/ \E p \in Procs : LatestNeighbors(p)
  \/ \E p \in Procs : LatestGetCur(p)
  \/ \E p \in Procs : LatestGetPrev(p)
  \/ \E p \in Procs : LatestRespond(p)
  \/ \E p \in Procs : LatestFail(p)
  \/ \E c \in calls, state \in {"sent", "failed"} : WebhookSettles(c, state)
  \/ \E d \in TickSteps : Tick(d)

Spec == Init /\ [][Next]_vars


\* ------------------------------------------------- the helpers on their own
InitHelpers ==
  /\ InitTables
  /\ InitHandlers
  /\ \/ fnArgs \in {[fn |-> "getStatus", headcount |-> c, threshold |-> t] :
                      c \in CountInputs, t \in ThresholdInputs}
     \/ fnArgs \in {[fn |-> "analyzeMobility", listA |-> a, listB |-> b] :
                      a \in ListInputs, b \in ListInputs}
  /\ fnRes = <<>>

CallGetStatus ==
  /\ fnRes = <<>>
  /\ fnArgs.fn = "getStatus"
  /\ fnRes' = <<getStatus(fnArgs.headcount, fnArgs.threshold)>>
  /\ UNCHANGED <<clock, nticks, dbVars, tableVars, autoinc, pc, h, tx, calls, hist, fnArgs>>

CallAnalyzeMobility ==
  /\ fnRes = <<>>
  /\ fnArgs.fn = "analyzeMobility"
  /\ fnRes' = <<analyzeMobility(fnArgs.listA, fnArgs.listB)>>
  /\ UNCHANGED <<clock, nticks, dbVars, tableVars, autoinc, pc, h, tx, calls, hist, fnArgs>>

NextHelpers == CallGetStatus \/ CallAnalyzeMobility

SpecHelpers == InitHelpers /\ [][NextHelpers]_vars

\* ----------------------------------------- registration, update and ingestion
\* the raw identifiers of a batch, the empty string among them
RawBatches == SeqsUpTo({"", "m1"}, MaxBatchLen)

\* the database as init.sql creates it: no row
InitAdmin ==
  /\ devices = {}
  /\ threshold = {}
  /\ device_neighbors = {}
  /\ webhooks = {}
  /\ tracked_devices = {}
  /\ device_observations = <<>>
  /\ crowd_data = <<>>
  /\ alerts = <<>>
  /\ autoinc = [tracked |-> 1, crowd |-> 1, alert |-> 1, device |-> 1, threshold |-> 1]
  /\ InitHandlers
  /\ fnArgs = <<>>
  /\ fnRes = <<>>

NextAdmin ==
  \/ \E p \in Procs, body \in ThresholdBodies : Register(p, body)
  \/ \E p \in Procs : RegisterThreshold(p)
  \/ \E p \in Procs : RegisterFail(p)
  \/ \E p \in Procs, id \in DeviceIdParams, body \in ThresholdBodies : UpdateReceive(p, id, body)
  \/ \E p \in Procs : UpdateSelect(p)
  \/ \E p \in Procs : UpdateWrite(p)
  \/ \E p \in Procs, uniqUrl \in UrlParams : ReceiveNotArray(p, uniqUrl)
  \/ \E p \in Procs, uniqUrl \in UrlParams, macs \in RawBatches : Receive(p, uniqUrl, macs)
  \/ \E p \in Procs : InsertTracked(p)
  \/ \E p \in Procs : SelectIds(p)
  \/ \E p \in Procs : InsertObs(p)
  \/ \E p \in Procs : Count(p)
  \/ \E p \in Procs : InsertCrowd(p)
  \/ \E p \in Procs : InsertAlert(p)
  \/ \E p \in Procs : SelectWebhooks(p)
  \/ \E p \in Procs : SelectNeighbors(p)
  \/ \E p \in Procs : GetCur(p)
  \/ \E p \in Procs : GetPrev(p)
  \/ \E p \in Procs : SelectInfos(p)
  \/ \E p \in Procs : Commit(p)
  \/ \E p \in Procs, uniqUrl \in UrlParams : LatestReceive(p, uniqUrl)
  \/ \E p \in Procs : LatestCount(p)
  \/ \E p \in Procs : LatestNeighbors(p)
  \/ \E p \in Procs : LatestGetCur(p)
  \/ \E p \in Procs : LatestGetPrev(p)
  \/ \E p \in Procs : LatestRespond(p)

SpecAdmin == InitAdmin /\ [][NextAdmin]_vars

\* ------------------------------------------------- analysis of stored snapshots
\* ingestions that ran one after the other, each within one second: sensor, batch and
\* the seconds since the one before
IngestionLogs ==
  SeqsUpTo([dev : {1, 2}, macs : Batches \ {<<>>}, gap : {0, 1}], MaxSnapshots)

RECURSIVE TimeOf(_, _)
TimeOf(log, k) == IF k = 0 THEN 0 ELSE TimeOf(log, k - 1) + log[k].gap

\* the identifiers of the log in the order tracked_devices first saw them
RECURSIVE TokenOrder(_, _, _)
TokenOrder(log, k, j) ==
  IF k > Len(log) THEN <<>>
  ELSE IF j > Len(log[k].macs) THEN TokenOrder(log, k + 1, 1)
  ELSE LET m == log[k].macs[j]
           seen == UNION {Range(log[i].macs) : i \in 1..(k - 1)}
                     \cup {log[k].macs[i] : i \in 1..(j - 1)}
       IN  (IF m \in seen THEN <<>> ELSE <<m>>) \o TokenOrder(log, k, j + 1)

TrackedId(log, m) == CHOOSE i \in 1..Len(TokenOrder(log, 1, 1)) : TokenOrder(log, 1, 1)[i] = m

RECURSIVE ObsOf(_, _)
ObsOf(log, k) ==
  IF k = 0 THEN <<>>
  ELSE ObsOf(log, k - 1) \o
         [j \in 1..Len(log[k].macs) |->
            [tracked_device_id |-> TrackedId(log, log[k].macs[j]), device_id |-> log[k].dev,
             observed_at |-> TimeOf(log, k)]]

DefaultThreshold(id) ==
  [id |-> id, device_id |-> id, safe |-> DefaultSafe, normal |-> DefaultNormal,
   warning |-> DefaultWarning, danger |-> DefaultDanger]

\* the headcount of ingestion k: every ingestion of the log is inside its window
HeadcountOf(log, k) ==
  Cardinality(UNION {Range(log[i].macs) : i \in {j \in 1..k : log[j].dev = log[k].dev}})

\* two devices registered without thresholds of their own, then the ingestions of a log
AfterIngestions(log) ==
  /\ devices = {[id |-> 1, url |-> <<"d", "1">>], [id |-> 2, url |-> <<"d", "2">>]}
  /\ threshold = {DefaultThreshold(1), DefaultThreshold(2)}
  /\ device_neighbors = {}
  /\ webhooks = {}
  /\ alerts = <<>>
  /\ calls = {}
  /\ nticks = 0
  /\ pc = [p \in Procs |-> "idle"]
  /\ h = [p \in Procs |-> NoLocals]
  /\ tx = [p \in Procs |-> NoTx]
  /\ LET order == TokenOrder(log, 1, 1)
         with(m) == {k \in 1..Len(log) : m \in Range(log[k].macs)}
         first(m) == CHOOSE k \in with(m) : \A i \in with(m) : k <= i
         last(m) == CHOOSE k \in with(m) : \A i \in with(m) : k >= i
     IN  /\ clock = TimeOf(log, Len(log))
         /\ tracked_devices =
              {[id |-> i, mac_hash |-> hashMac(order[i]),
                first_seen |-> TimeOf(log, first(order[i])),
                last_seen |-> TimeOf(log, last(order[i]))] : i \in 1..Len(order)}
         /\ device_observations = ObsOf(log, Len(log))
         /\ crowd_data =
              [k \in 1..Len(log) |->
                 [id |-> k, device_id |-> log[k].dev, headcount |-> HeadcountOf(log, k),
                  status |-> getStatus(HeadcountOf(log, k), DefaultThreshold(log[k].dev)),
                  wifi_list |-> log[k].macs, created_at |-> TimeOf(log, k)]]
         /\ autoinc = [tracked |-> Len(order) + 1, crowd |-> Len(log) + 1, alert |-> 1,
                       device |-> 3, threshold |-> 3]
         /\ hist =
              [k \in 1..Len(log) |->
                 [NoHist EXCEPT !.kind = "ingest", !.url = <<ToString(log[k].dev)>>,
                                !.macs = log[k].macs, !.code = 200, !.dev = log[k].dev,
                                !.now = TimeOf(log, k), !.headcount = HeadcountOf(log, k),
                                !.status = getStatus(HeadcountOf(log, k),
                                                     DefaultThreshold(log[k].dev)),
                                !.crowdDataId = k,
                                !.fields = {"device", "headcount", "status",
                                            "window_seconds", "neighbors"}]]

InitAnalysis ==
  /\ \E log \in IngestionLogs : AfterIngestions(log)
  /\ fnArgs \in {[fn |-> "analysis", limit |-> q] : q \in 0..MaxSnapshots}
  /\ fnRes = <<>>

NextAnalysis == Analysis

SpecAnalysis == InitAnalysis /\ [][NextAnalysis]_vars

\* ------------------------------------- two ingestions for two sensors at once
\* both requests have been received: sensor 1 on one connection, sensor 2 on the other
InitConc ==
  /\ InitTables
  /\ clock = 0
  /\ nticks = 0
  /\ tx = [p \in Procs |-> NoTx]
  /\ calls = {}
  /\ fnArgs = <<>>
  /\ fnRes = <<>>
  /\ \E a \in Batches \ {<<>>}, b \in Batches \ {<<>>} :
       LET batch == [p \in Procs |-> IF p = "p1" THEN a ELSE b]
           sensor == [p \in Procs |-> IF p = "p1" THEN 1 ELSE 2]
           th(p) == CHOOSE t \in threshold : t.id = sensor[p]
       IN  /\ pc = [p \in Procs |-> "insertTracked"]
           /\ h = [p \in Procs |->
                     [NoLocals EXCEPT !.ing = sensor[p], !.dev = sensor[p], !.th = th(p),
                                      !.macs = batch[p], !.now = 0]]
           /\ hist = [i \in 1..2 |->
                        [NoHist EXCEPT !.kind = "ingest", !.url = <<ToString(i)>>,
                                       !.macs = IF i = 1 THEN a ELSE b, !.dev = i]]

NextConc ==
  \/ \E p \in Procs : InsertTracked(p)
  \/ \E p \in Procs : Deadlock(p)
  \/ \E p \in Procs : SelectIds(p)
  \/ \E p \in Procs : InsertObs(p)
  \/ \E p \in Procs : Count(p)
  \/ \E p \in Procs : InsertCrowd(p)
  \/ \E p \in Procs : InsertAlert(p)
  \/ \E p \in Procs : SelectWebhooks(p)
  \/ \E p \in Procs : SelectNeighbors(p)
  \/ \E p \in Procs : GetCur(p)
  \/ \E p \in Procs : GetPrev(p)
  \/ \E p \in Procs : SelectInfos(p)
  \/ \E p \in Procs : Commit(p)

SpecConc == InitConc /\ [][NextConc]_vars

\* ------------------------------------- two ingestions for one sensor at once
\* both requests name sensor 1 and have passed validation and the lookups
InitSameSensor ==
  /\ InitTables
  /\ clock = 0
  /\ nticks = 0
  /\ tx = [p \in Procs |-> NoTx]
  /\ calls = {}
  /\ fnArgs = <<>>
  /\ fnRes = <<>>
  /\ \E a \in Batches \ {<<>>}, b \in Batches \ {<<>>} :
       LET batch == [p \in Procs |-> IF p = "p1" THEN a ELSE b]
           ing == [p \in Procs |-> IF p = "p1" THEN 1 ELSE 2]
           th == CHOOSE t \in threshold : t.id = 1
       IN  /\ pc = [p \in Procs |-> "insertTracked"]
           /\ h = [p \in Procs |->
                     [NoLocals EXCEPT !.ing = ing[p], !.dev = 1, !.th = th,
                                      !.macs = batch[p], !.now = 0]]
           /\ hist = [i \in 1..2 |->
                        [NoHist EXCEPT !.kind = "ingest", !.url = <<"1">>,
                                       !.macs = IF i = 1 THEN a ELSE b, !.dev = 1]]

SpecSameSensor == InitSameSensor /\ [][NextConc]_vars

\* --------------------------------------- latest reads of an ageing sighting
\* the time that passes between two statements: a second, a window, two windows
AgingSteps == {1, WindowSeconds, 2 * WindowSeconds}

\* one ingestion has committed and no other follows
InitAging ==
  /\ \E e \in [dev : {1, 2}, macs : Batches \ {<<>>}, gap : {0, 1}] : AfterIngestions(<<e>>)
  /\ fnArgs = <<>>
  /\ fnRes = <<>>

NextAging ==
  \/ \E p \in Procs, uniqUrl \in UrlParams : LatestReceive(p, uniqUrl)
  \/ \E p \in Procs : LatestCount(p)
  \/ \E p \in Procs : LatestNeighbors(p)
  \/ \E p \in Procs : LatestGetCur(p)
  \/ \E p \in Procs : LatestGetPrev(p)
  \/ \E p \in Procs : LatestRespond(p)
  \/ \E d \in AgingSteps : Tick(d)

SpecAging == InitAging /\ [][NextAging]_vars

\* ------------------------------------------------------------------ claims
\* C1: getStatus returns 'danger' if count >= danger, else 'warning' if count >= warning,
\* else 'normal' if count >= normal, else 'safe', for every count and every threshold
\* record, increasing or not; a count equal to a breakpoint is in the higher band and
\* count >= danger gives 'danger' whatever the other breakpoints are.
C1_HighestBandWins ==
  (fnRes # <<>> /\ fnArgs.fn = "getStatus" /\ DOMAIN fnArgs.threshold = ThresholdFields) =>
    LET c == fnArgs.headcount
        t == fnArgs.threshold
    IN  /\ c >= t.danger => fnRes[1] = "danger"
        /\ (c < t.danger /\ c >= t.warning) => fnRes[1] = "warning"
        /\ (c < t.danger /\ c < t.warning /\ c >= t.normal) => fnRes[1] = "normal"
        /\ (c < t.danger /\ c < t.warning /\ c < t.normal) => fnRes[1] = "safe"

\* a malformed record (normal > warning) and a count equal to the warning breakpoint
C1_Witness ==
  /\ fnRes = <<"warning">>
  /\ DOMAIN fnArgs.threshold = ThresholdFields
  /\ fnArgs.threshold.normal > fnArgs.threshold.warning
  /\ fnArgs.headcount = fnArgs.threshold.warning
  /\ fnArgs.headcount < fnArgs.threshold.danger


\* ---- vocabulary of the claims: sightings as the requests submitted them
\* (history, independent of the tables: raw identifiers, not tracked ids)
IngestAfterObs == TxPcs \ {"insertTracked", "selectIds", "insertObs"}
IngestAfterCount == IngestAfterObs \ {"count"}
IngestAfterCur == {"getPrev", "selectInfos", "commit"}
IngestAfterPrev == {"selectInfos", "commit"}

\* the ingestions whose sightings the last query of handler p could read: those
\* committed when its snapshot was taken (seen), and its own once written
VisibleIngs(p) == h[p].seen \cup (IF pc[p] \in IngestAfterObs THEN {h[p].ing} ELSE {})

SightingsOf(ings) ==
  UNION {{[mac |-> m, dev |-> hist[i].dev, at |-> hist[i].now] : m \in Range(hist[i].macs)} :
           i \in ings}

\* the distinct identifiers sighted by sensor dev at or after instant lo
TokensSince(sightings, dev, lo) ==
  {x.mac : x \in {y \in sightings : y.dev = dev /\ y.at >= lo}}

\* C2: the current count reported for a sensor is the number of distinct tokens with at
\* least one sighting by that sensor inside the current window; a token that appears
\* twice in a batch, or in several batches of the window, counts once.
C2_DistinctTokensCounted ==
  \A p \in Procs :
    LET sightings == SightingsOf(VisibleIngs(p))
    IN  /\ pc[p] \in IngestAfterCount \cup {"latestNeighbors"} =>
             h[p].headcount =
               Cardinality(TokensSince(sightings, h[p].dev, h[p].tCount - WindowSeconds))
        /\ pc[p] \in IngestAfterCur \cup {"latestGetPrev"} =>
             \A d \in Range(h[p].allDeviceIds) :
               MapGet(h[p].curMap, d) =
                 Cardinality(TokensSince(sightings, d, h[p].tCur - WindowSeconds))

\* a batch that repeats a token, on a sensor that already sighted it in this window
C2_Witness ==
  \E p \in Procs :
    /\ pc[p] = "commit"
    /\ Len(h[p].macs) = 2 /\ h[p].macs[1] = h[p].macs[2]
    /\ \E i \in h[p].seen :
         /\ hist[i].dev = h[p].dev
         /\ h[p].macs[1] \in Range(hist[i].macs)
         /\ hist[i].now >= h[p].tCount - WindowSeconds
    /\ h[p].headcount = 1
    /\ MapGet(h[p].curMap, h[p].dev) = 1

\* C3 (as claimed): the headcount of a successful ingestion is at least the number of
\* distinct tokens of its batch.
C3_IncludesOwnSightings ==
  \A i \in Committed : hist[i].headcount >= Cardinality(Range(hist[i].macs))

ScenarioThresholds == [safe |-> 30, normal |-> 50, warning |-> 80, danger |-> 120]

\* C4: an ingestion whose own sightings are in the window counts m = its distinct
\* tokens when the sensor has no other sighting in the window, and m + n when the only
\* other ones are those of one earlier ingestion with n distinct tokens, none shared;
\* the status is getStatus of that count; 85 gives warning (an alert), 85 + 130 danger.
C4_SequentialBatchesAdd ==
  /\ \A p \in Procs :
       pc[p] \in IngestAfterCount =>
         LET lo == h[p].tCount - WindowSeconds
             mine == Range(h[p].macs)
             prior == {i \in h[p].seen : hist[i].dev = h[p].dev /\ hist[i].now >= lo}
         IN  /\ h[p].status = getStatus(h[p].headcount, h[p].th)
             /\ (h[p].now >= lo /\ prior = {}) => h[p].headcount = Cardinality(mine)
             /\ \A i \in prior :
                  (h[p].now >= lo /\ prior = {i} /\ Range(hist[i].macs) \cap mine = {}) =>
                    h[p].headcount = Cardinality(Range(hist[i].macs)) + Cardinality(mine)
  /\ \A i \in Committed :
       \E k \in 1..Len(crowd_data) :
         /\ crowd_data[k].id = hist[i].crowdDataId
         /\ crowd_data[k].headcount = hist[i].headcount
         /\ crowd_data[k].status = hist[i].status
  /\ getStatus(85, ScenarioThresholds) = "warning"
  /\ ShouldAlert(getStatus(85, ScenarioThresholds))
  /\ getStatus(85 + 130, ScenarioThresholds) = "danger"

\* first ingestion: count m, warning; second, disjoint, in the window: m + n, danger
C4_Witness ==
  \E p \in Procs : \E i \in h[p].seen :
    /\ pc[p] = "commit"
    /\ h[p].th.device_id = h[p].dev
    /\ hist[i].dev = h[p].dev
    /\ Range(hist[i].macs) \cap Range(h[p].macs) = {}
    /\ hist[i].headcount = Cardinality(Range(hist[i].macs))
    /\ hist[i].status = "warning"
    /\ h[p].headcount = hist[i].headcount + Cardinality(Range(h[p].macs))
    /\ h[p].status = "danger"
    /\ clock > hist[i].now


\* the sightings by sensor d that the last query of handler p could read
SightingsBy(p, d) == {x \in SightingsOf(VisibleIngs(p)) : x.dev = d}

\* C5 (as claimed): a token whose only sighting is at exactly now - w is counted in the
\* previous window and not in the current window.
C5_BoundaryInPrevious ==
  \A p \in Procs :
    /\ pc[p] \in IngestAfterCur \cup {"latestGetPrev"} =>
         \A d \in Range(h[p].allDeviceIds) :
           (SightingsBy(p, d) # {}
              /\ \A x \in SightingsBy(p, d) : x.at = h[p].tCur - WindowSeconds) =>
             MapGet(h[p].curMap, d) = 0
    /\ pc[p] \in IngestAfterPrev \cup {"latestInfos"} =>
         \A d \in Range(h[p].allDeviceIds) :
           (SightingsBy(p, d) # {}
              /\ \A x \in SightingsBy(p, d) : x.at = h[p].tPrev - WindowSeconds) =>
             MapGet(h[p].prevMap, d) = Cardinality({x.mac : x \in SightingsBy(p, d)})

\* C5 (amended): a token whose only sighting is at exactly now - w, now being the
\* instant of the count query, is counted in the current window (headcount, curMap)
\* and not in the previous window (prevMap).
C5_BoundaryInCurrent ==
  \A p \in Procs :
    /\ pc[p] \in IngestAfterCount \cup {"latestNeighbors"} =>
         ((SightingsBy(p, h[p].dev) # {}
             /\ \A x \in SightingsBy(p, h[p].dev) : x.at = h[p].tCount - WindowSeconds) =>
            h[p].headcount = Cardinality({x.mac : x \in SightingsBy(p, h[p].dev)}))
    /\ pc[p] \in IngestAfterCur \cup {"latestGetPrev"} =>
         \A d \in Range(h[p].allDeviceIds) :
           (SightingsBy(p, d) # {}
              /\ \A x \in SightingsBy(p, d) : x.at = h[p].tCur - WindowSeconds) =>
             MapGet(h[p].curMap, d) = Cardinality({x.mac : x \in SightingsBy(p, d)})
    /\ pc[p] \in IngestAfterPrev \cup {"latestInfos"} =>
         \A d \in Range(h[p].allDeviceIds) :
           (SightingsBy(p, d) # {}
              /\ \A x \in SightingsBy(p, d) : x.at = h[p].tPrev - WindowSeconds) =>
             MapGet(h[p].prevMap, d) = 0

\* both windows read at the same instant, a sensor whose sightings are all at now - w
C5_Witness ==
  \E p \in Procs : \E d \in Range(h[p].allDeviceIds) :
    /\ pc[p] \in IngestAfterPrev \cup {"latestInfos"}
    /\ h[p].tCur = h[p].tPrev
    /\ SightingsBy(p, d) # {}
    /\ \A x \in SightingsBy(p, d) : x.at = h[p].tCur - WindowSeconds
    /\ MapGet(h[p].curMap, d) >= 1
    /\ MapGet(h[p].prevMap, d) = 0

\* C6 (as claimed): within one response no sighting contributes to both the current and
\* the previous count of a participant, whatever time passes between the two queries:
\* a participant with a single sighting has current + previous <= 1.
C6_NoDoubleCount ==
  \A p \in Procs :
    pc[p] \in IngestAfterPrev \cup {"latestInfos"} =>
      \A d \in Range(h[p].allDeviceIds) :
        Cardinality(SightingsBy(p, d)) = 1 =>
          MapGet(h[p].curMap, d) + MapGet(h[p].prevMap, d) <= 1

\* C7: predicted = max(0, current + (current - previous)) for every participant of an
\* ingest or latest response: never negative, and a function of the participant's own
\* two counts only.
C7_PredictionClamped ==
  /\ \A p \in Procs :
       pc[p] \in IngestAfterPrev \cup {"latestInfos"} =>
         \A k \in 1..Len(Neighbors(p)) :
           LET e == Neighbors(p)[k]
               id == h[p].allDeviceIds[k]
               linear == e.current + (e.current - e.previous)
           IN  /\ e.device_id = id
               /\ e.current = MapGet(h[p].curMap, id)
               /\ e.previous = MapGet(h[p].prevMap, id)
               /\ e.predicted = IF linear > 0 THEN linear ELSE 0
               /\ e.predicted >= 0
  /\ NeighborEntry(1, (1 :> 0), (1 :> 100)).predicted = 0
  /\ NeighborEntry(1, (1 :> 40) @@ (2 :> 10), (1 :> 20) @@ (2 :> 10)).predicted = 60
  /\ NeighborEntry(2, (1 :> 40) @@ (2 :> 10), (1 :> 20) @@ (2 :> 10)).predicted = 10

\* a response where one participant's extrapolation is negative and is reported as 0
C7_Witness ==
  \E p \in Procs : \E k \in 1..Len(h[p].allDeviceIds) :
    /\ pc[p] \in {"commit", "latestInfos"}
    /\ Neighbors(p)[k].current + Neighbors(p)[k].current < Neighbors(p)[k].previous
    /\ Neighbors(p)[k].predicted = 0

\* the committed alerts that reference a crowd_data row
AlertsFor(crowdDataId) == {k \in 1..Len(alerts) : alerts[k].crowd_data_id = crowdDataId}

\* C8: a committed ingestion with severity warning or danger has exactly one alert row,
\* of that sensor, with that level, referencing its crowd_data row; one with severity
\* safe or normal has none; nothing suppresses the alert of a later qualifying one.
C8_OneAlertPerQualifying ==
  /\ \A i \in Committed :
       /\ hist[i].status \in {"warning", "danger"} =>
            /\ Cardinality(AlertsFor(hist[i].crowdDataId)) = 1
            /\ \A k \in AlertsFor(hist[i].crowdDataId) :
                 alerts[k].level = hist[i].status /\ alerts[k].device_id = hist[i].dev
       /\ hist[i].status \in {"safe", "normal"} => AlertsFor(hist[i].crowdDataId) = {}
       /\ \E k \in 1..Len(crowd_data) :
            /\ crowd_data[k].id = hist[i].crowdDataId
            /\ crowd_data[k].device_id = hist[i].dev
            /\ crowd_data[k].status = hist[i].status
  /\ \A k \in 1..Len(alerts) :
       \E i \in Committed : hist[i].crowdDataId = alerts[k].crowd_data_id

\* two consecutive qualifying ingestions of one sensor, each with its own alert
C8_Witness ==
  \E i, j \in Committed :
    /\ i < j
    /\ hist[i].dev = hist[j].dev
    /\ hist[i].status = "warning" /\ hist[j].status = "danger"
    /\ AlertsFor(hist[i].crowdDataId) # {}
    /\ AlertsFor(hist[j].crowdDataId) # {}
    /\ AlertsFor(hist[i].crowdDataId) \cap AlertsFor(hist[j].crowdDataId) = {}

\* the statements of the ingestion handler after the webhook dispatch
Proceed(p) ==
  \/ SelectNeighbors(p) \/ GetCur(p) \/ GetPrev(p) \/ SelectInfos(p) \/ Commit(p)

C9_NoWait ==
  \A p \in Procs :
    pc[p] \in {"selectNeighbors", "getCur", "getPrev", "selectInfos", "commit"} =>
      ENABLED Proceed(p)

C9_SettleFrame ==
  calls' # calls /\ (\A c \in calls' : \E b \in calls : b.ing = c.ing /\ b.url = c.url) =>
    UNCHANGED <<tracked_devices, device_observations, crowd_data, alerts, pc, h, tx, hist>>

\* C9: webhook delivery is fire-and-forget: after the dispatch the handler can always
\* go on to commit and respond, whatever the state of the calls; and a call that
\* succeeds, fails or never settles changes no table, no transaction and no response.
C9_FireAndForget == []C9_NoWait /\ [][C9_SettleFrame]_vars

\* two qualifying ingestions have committed and responded: the webhook call of one has
\* failed, that of the other is still pending, and both alerts are stored
C9_Witness ==
  \E c1, c2 \in calls :
    /\ c1.state = "failed" /\ c2.state = "pending"
    /\ hist[c1.ing].code = 200 /\ hist[c2.ing].code = 200
    /\ AlertsFor(c1.crowdDataId) # {}
    /\ AlertsFor(c2.crowdDataId) # {}

C10_OnlyCommittedVisible ==
  /\ Len(crowd_data) = Cardinality(Committed)
  /\ \A k \in 1..Len(crowd_data) :
       \E i \in Committed : crowd_data[k].id = hist[i].crowdDataId
  /\ \A k \in 1..Len(alerts) :
       \E i \in Committed : alerts[k].crowd_data_id = hist[i].crowdDataId
  /\ \A k \in 1..Len(device_observations) :
       \E i \in Committed :
         /\ device_observations[k].device_id = hist[i].dev
         /\ device_observations[k].observed_at = hist[i].now
         /\ \E r \in tracked_devices :
              /\ r.id = device_observations[k].tracked_device_id
              /\ r.mac_hash \in {hashMac(m) : m \in Range(hist[i].macs)}
  /\ \A r \in tracked_devices :
       \E i, j \in Committed :
         /\ r.mac_hash \in {hashMac(m) : m \in Range(hist[i].macs)}
         /\ r.mac_hash \in {hashMac(m) : m \in Range(hist[j].macs)}
         /\ r.first_seen = hist[i].now
         /\ r.last_seen = hist[j].now

C10_RollbackFrame ==
  \A p \in Procs :
    (pc[p] \in TxPcs /\ pc'[p] = "idle" /\ hist'[h[p].ing].code = 500) =>
      UNCHANGED <<tracked_devices, device_observations, crowd_data, alerts>>

\* C10: ingestion is all-or-nothing: when a statement of the transaction fails the
\* handler answers 500 and the four tables are what they were; at every moment the
\* tables hold only rows written by ingestions that committed.
C10_AllOrNothing == []C10_OnlyCommittedVisible /\ [][C10_RollbackFrame]_vars

\* an ingestion failed after inserting its tracked_devices and crowd_data rows (the
\* AUTO_INCREMENT counters moved) and no such row is stored
C10_Witness ==
  /\ \A p \in Procs : pc[p] = "idle"
  /\ \E i \in 1..Len(hist) : hist[i].kind = "ingest" /\ hist[i].code = 500 /\ hist[i].dev # 0
  /\ autoinc.crowd - 1 > Len(crowd_data)
  /\ autoinc.tracked - 1 > Cardinality(tracked_devices)
  /\ \E i \in Committed : TRUE

\* the last request received is an ingestion, and what its sensor lookup found
C11_RejectStep ==
  (Len(hist') = Len(hist) + 1 /\ hist'[Len(hist')].kind = "ingest") =>
    LET e == hist'[Len(hist')]
        wellFormed == e.array /\ e.macs # <<>>
        found == {d \in devices : UrlLike(d.url, e.url)}
        configured == {d \in found : \E t \in threshold : t.device_id = d.id}
    IN  /\ e.code # 0 => UNCHANGED <<dbVars, tableVars, tx, calls>>
        /\ e.code = 400 <=> ~wellFormed
        /\ e.code = 404 <=> (wellFormed /\ found = {})
        /\ e.code = 500 <=> (wellFormed /\ found # {} /\ configured = {})

\* C11 (as claimed): ingest rejects without changing any stored state: 400 for an empty
\* or non-list batch, 404 for an unknown sensor, 500 for a sensor that exists but has no
\* threshold record; a sensor that has a threshold record is never rejected with 500.
C11_RejectsWithoutChange == [][C11_RejectStep]_vars

\* a step of a latest handler: its request is received (accepted or rejected) or one of
\* its statements runs
C12_LatestStep ==
  (\/ \E p \in Procs : pc'[p] # pc[p] /\ (pc[p] \in LatestPcs \/ pc'[p] \in LatestPcs)
   \/ Len(hist') > Len(hist) /\ hist'[Len(hist')].kind = "latest") =>
    UNCHANGED <<devices, threshold, device_neighbors, webhooks, tracked_devices,
                device_observations, crowd_data, alerts, autoinc, tx, calls>>

C12_SameShape ==
  \A p \in Procs :
    pc[p] = "latestInfos" =>
      /\ DOMAIN LatestResponse(p) = DOMAIN IngestResponse(p)
      /\ DOMAIN LatestResponse(p) =
           {"device", "headcount", "status", "window_seconds", "neighbors"}
      /\ LatestResponse(p).headcount = h[p].headcount
      /\ LatestResponse(p).neighbors = Neighbors(p)
      /\ LatestResponse(p).status = getStatus(h[p].headcount, h[p].th)

\* C12: latest is a pure read: no step of it changes any table (devices, thresholds,
\* neighbors, webhooks, tracked_devices, device_observations, crowd_data, alerts) nor
\* starts a webhook call, and its response has the fields of the ingestion response:
\* device, headcount, status, window_seconds, neighbors.
C12_LatestPureRead == []C12_SameShape /\ [][C12_LatestStep]_vars

\* a latest request answered with a warning or danger status: the tables hold what the
\* one ingestion before it committed, and no webhook call was started for it
C12_Witness ==
  \E i \in 1..Len(hist) :
    /\ hist[i].kind = "latest" /\ hist[i].code = 200
    /\ hist[i].status \in {"warning", "danger"}
    /\ \A c \in calls : c.ing # i
    /\ calls # {}
    /\ Len(crowd_data) = 1 /\ Len(alerts) = 1

\* q = a / b
IsQuotient(q, a, b) == q.den > 0 /\ q.num * b = a * q.den

MobilityCalled == fnRes # <<>> /\ fnArgs.fn = "analyzeMobility"

\* C13: for two lists with a non-empty union, duplicates ignored, analyzeMobility
\* returns the intersection and the union of the two sets, jaccard = |A n B| / |A u B|
\* and mobility = 1 - jaccard, with 0 <= mobility <= 1; {x,y,z} and {y,z,w} give
\* intersection 2, union 4, jaccard 1/2, mobility 1/2.
C13_JaccardOfSets ==
  /\ MobilityCalled =>
       LET A == Range(fnArgs.listA)
           B == Range(fnArgs.listB)
           r == fnRes[1]
       IN  A \cup B # {} =>
             /\ r.intersection = A \cap B
             /\ r.union = A \cup B
             /\ IsQuotient(r.jaccard, Cardinality(A \cap B), Cardinality(A \cup B))
             /\ IsQuotient(r.mobility, r.jaccard.den - r.jaccard.num, r.jaccard.den)
             /\ r.mobility.num >= 0 /\ r.mobility.num <= r.mobility.den
  /\ LET r == analyzeMobility(<<"x", "y", "z">>, <<"y", "z", "w">>)
     IN  /\ Cardinality(r.intersection) = 2
         /\ Cardinality(r.union) = 4
         /\ r.jaccard = [num |-> 1, den |-> 2]
         /\ r.mobility = [num |-> 1, den |-> 2]

\* lists that repeat an identifier: the repetition does not count
C13_Witness ==
  /\ MobilityCalled
  /\ fnArgs.listA = <<"x", "x", "y">>
  /\ fnArgs.listB = <<"y", "y">>
  /\ fnRes[1].jaccard = [num |-> 1, den |-> 2]
  /\ fnRes[1].mobility = [num |-> 1, den |-> 2]

\* C14: when both lists are empty analyzeMobility returns jaccard = 1 and mobility = 0.
C14_EmptyPolicy ==
  (MobilityCalled /\ fnArgs.listA = <<>> /\ fnArgs.listB = <<>>) =>
    /\ fnRes[1].jaccard = [num |-> 1, den |-> 1]
    /\ fnRes[1].mobility = [num |-> 0, den |-> 1]

C14_Witness ==
  /\ MobilityCalled
  /\ fnArgs.listA = <<>> /\ fnArgs.listB = <<>>
  /\ fnRes[1].union = {}
  /\ fnRes[1].mobility.num = 0

\* C15: analyzeMobility is symmetric: the jaccard and the mobility of (A, B) are those
\* of (B, A).
C15_Symmetric ==
  MobilityCalled =>
    /\ fnRes[1].jaccard = analyzeMobility(fnArgs.listB, fnArgs.listA).jaccard
    /\ fnRes[1].mobility = analyzeMobility(fnArgs.listB, fnArgs.listA).mobility

\* two lists of different sizes, one not contained in the other
C15_Witness ==
  /\ MobilityCalled
  /\ Cardinality(Range(fnArgs.listA)) = 1
  /\ Cardinality(Range(fnArgs.listB)) = 3
  /\ Range(fnArgs.listA) \subseteq Range(fnArgs.listB)
  /\ fnRes[1].jaccard = [num |-> 1, den |-> 3]
  /\ fnRes[1].mobility = [num |-> 2, den |-> 3]

AnalysisCalled == fnRes # <<>> /\ fnArgs.fn = "analysis"

\* the snapshots the query selected for a sensor
SelectedOf(d) == {fnRes[1].rows[i] : i \in {j \in 1..Len(fnRes[1].rows) :
                                              fnRes[1].rows[j].device_id = d}}

\* C16: for each sensor the trend is its selected snapshots in ascending time order,
\* each paired with its immediate predecessor: n snapshots give n - 1 entries, entry i
\* has from = time of snapshot i <= to = time of snapshot i + 1 and the mobility of
\* those two; the selected snapshots are the most recent ones up to the limit.
C16_AdjacentPairs ==
  AnalysisCalled =>
    LET rows == fnRes[1].rows
        body == fnRes[1].body
    IN  /\ Len(rows) = IF Len(crowd_data) < Limit(fnArgs.limit) THEN Len(crowd_data)
                       ELSE Limit(fnArgs.limit)
        /\ Range(rows) \subseteq Range(crowd_data)
        /\ \A r \in Range(crowd_data) \ Range(rows) :
             \A x \in Range(rows) : r.created_at <= x.created_at
        /\ DOMAIN body = {rows[i].device_id : i \in 1..Len(rows)}
        /\ \A d \in DOMAIN body :
             /\ Len(body[d]) = Cardinality(SelectedOf(d)) - 1
             /\ \E o \in Orderings(SelectedOf(d)) :
                  \A i \in 1..(Len(o) - 1) :
                    /\ o[i].created_at <= o[i + 1].created_at
                    /\ body[d][i].from = o[i].created_at
                    /\ body[d][i].to = o[i + 1].created_at
                    /\ body[d][i].from <= body[d][i].to
                    /\ body[d][i].mobility =
                         ToFixed4(analyzeMobility(o[i].wifi_list, o[i + 1].wifi_list).mobility)

\* three snapshots of one sensor at three instants, the first and the last with the
\* same identifiers and the middle one different: two entries, both with mobility 1
C16_Witness ==
  /\ AnalysisCalled
  /\ Len(crowd_data) = 3
  /\ \A k \in 1..3 : crowd_data[k].device_id = 1 /\ crowd_data[k].created_at = k - 1
  /\ crowd_data[1].wifi_list = <<"m1">>
  /\ crowd_data[2].wifi_list = <<"m2">>
  /\ crowd_data[3].wifi_list = <<"m1">>
  /\ fnArgs.limit = 0
  /\ fnRes[1].body[1] = <<[from |-> 0, to |-> 1, mobility |-> 10000],
                          [from |-> 1, to |-> 2, mobility |-> 10000]>>

\* C17 (as claimed): after any sequence of registrations and updates every stored
\* threshold record has safe < normal < warning < danger.
C17_ThresholdsIncreasing ==
  \A t \in threshold : t.safe < t.normal /\ t.normal < t.warning /\ t.warning < t.danger

\* C18 (as claimed): redaction fails on the empty identifier, so no token and no
\* sighting is ever recorded for it, in a transaction or in the tables.
C18_EmptyIdentifierRefused ==
  /\ \A r \in tracked_devices : r.mac_hash # hashMac("")
  /\ \A p \in Procs : \A r \in tx[p].tracked : r.mac_hash # hashMac("")
  /\ \A i \in Committed : "" \notin Range(hist[i].macs)

\* C19 (as claimed): two ingestions for different sensors running at once, whatever
\* identifiers they share: neither is aborted, and each answers with the headcount,
\* the severity and the alert it would have alone.
C19_Independent ==
  \A i \in 1..Len(hist) :
    /\ hist[i].code \in {0, 200}
    /\ hist[i].code = 200 =>
         /\ hist[i].headcount = Cardinality(Range(hist[i].macs))
         /\ \A t \in threshold :
              t.device_id = hist[i].dev => hist[i].status = getStatus(hist[i].headcount, t)
         /\ ShouldAlert(hist[i].status) <=> AlertsFor(hist[i].crowdDataId) # {}

\* C20 (as claimed): after any sequence of registrations, failed registrations and
\* updates, the severity that ingest and latest compute for a sensor is classified
\* against the threshold record whose device_id is that sensor's id.
C20_OwnThresholds ==
  \A p \in Procs :
    pc[p] \in IngestAfterCount \cup (LatestPcs \ {"latestCount"}) =>
      /\ h[p].th.device_id = h[p].dev
      /\ h[p].status = getStatus(h[p].headcount, h[p].th)

\* ------------------------------------------------------------------------ C21
\* C21: a webhook call is delivered only for an ingestion that ends up committed:
\* no recipient has received the payload of an ingestion whose transaction was rolled
\* back, and the payload of a finished ingestion names a stored alert.
C21_WebhookOnlyIfCommitted ==
  \A c \in calls :
    c.state = "sent" =>
      /\ hist[c.ing].code # 500
      /\ hist[c.ing].code = 200 =>
           \E k \in 1..Len(alerts) : alerts[k].crowd_data_id = c.crowdDataId

\* ------------------------------------------------------------------------ C22
\* the handlers that have built allDeviceIds
AfterNeighbors ==
  {p \in Procs : pc[p] \in {"getCur", "getPrev", "selectInfos", "commit",
                            "latestGetCur", "latestGetPrev", "latestInfos"}}

\* C22: the participants of an ingest or latest response are the sensor and its declared
\* neighbors, each id exactly once in the neighbors list, a self-loop edge included.
C22_ParticipantsOnce ==
  \A p \in AfterNeighbors :
    LET ids == [k \in 1..Len(Neighbors(p)) |-> Neighbors(p)[k].device_id]
        declared == {e.neighbor_device_id :
                       e \in {r \in device_neighbors : r.device_id = h[p].dev}}
    IN  /\ Range(ids) = {h[p].dev} \cup declared
        /\ \A j, k \in 1..Len(ids) : ids[j] = ids[k] => j = k

\* ------------------------------------------------------------------------ C23
\* C23: the top-level headcount of an ingest or latest response equals the 'current' of
\* the sensor's own entry of the neighbors list, whatever time elapses between the
\* headcount query and the window queries.
C23_HeadcountIsOwnCurrent ==
  \A p \in Procs :
    pc[p] \in {"getPrev", "selectInfos", "commit", "latestGetPrev", "latestInfos"} =>
      \A k \in 1..Len(Neighbors(p)) :
        Neighbors(p)[k].device_id = h[p].dev => Neighbors(p)[k].current = h[p].headcount

\* ------------------------------------------------------------------------ C24
\* the distinct tokens among the sightings of sensor dev stored in table rows and
\* observed at lo or later
StoredTokens(rows, dev, lo) ==
  {rows[k].tracked_device_id :
     k \in {j \in 1..Len(rows) : rows[j].device_id = dev /\ rows[j].observed_at >= lo}}

\* C24: of two concurrent ingestions for one sensor in one window, each answers with
\* the number of distinct tokens among that sensor's sightings of the window that are
\* committed when it commits itself: the later one reports the union of both batches.
C24_CountsCommittedUnion ==
  [][\A p \in Procs :
       (pc[p] = "commit" /\ pc'[p] = "idle" /\ hist'[h[p].ing].code = 200) =>
         hist'[h[p].ing].headcount =
           Cardinality(StoredTokens(device_observations', h[p].dev,
                                    clock - WindowSeconds))]_vars

\* ------------------------------------------------------------------------ C25
\* C25: every participant has an entry of the neighbors list whose current, previous
\* and predicted are non-negative integers; a participant without a sighting in a
\* window is reported with 0 for that window, and one without any sighting with 0, 0, 0.
C25_AbsentCountsZero ==
  \A p \in Procs :
    pc[p] \in IngestAfterPrev \cup {"latestInfos"} =>
      LET ns == Neighbors(p)
          declared == {e.neighbor_device_id :
                         e \in {r \in device_neighbors : r.device_id = h[p].dev}}
      IN  /\ \A d \in {h[p].dev} \cup declared : \E k \in 1..Len(ns) : ns[k].device_id = d
          /\ \A k \in 1..Len(ns) :
               LET at == {x.at : x \in SightingsBy(p, ns[k].device_id)}
               IN  /\ ns[k].current \in Nat
                   /\ ns[k].previous \in Nat
                   /\ ns[k].predicted \in Nat
                   /\ (\A t \in at : t < h[p].tCur - WindowSeconds) => ns[k].current = 0
                   /\ (\A t \in at : t < h[p].tPrev - 2 * WindowSeconds
                                       \/ t >= h[p].tPrev - WindowSeconds) =>
                        ns[k].previous = 0
                   /\ at = {} => ns[k].predicted = 0

\* a neighbor without any sighting is listed with 0, 0, 0 next to a sensor that has some
C25_Witness ==
  \E p \in Procs :
    /\ pc[p] \in IngestAfterPrev \cup {"latestInfos"}
    /\ \E j, k \in 1..Len(Neighbors(p)) :
         /\ Neighbors(p)[j].current >= 1
         /\ SightingsBy(p, Neighbors(p)[k].device_id) = {}
         /\ Neighbors(p)[k].current = 0
         /\ Neighbors(p)[k].previous = 0
         /\ Neighbors(p)[k].predicted = 0

\* ------------------------------------------------------------------------ C26
\* the ingestions whose transaction ended on a thrown error
FailedIngestions ==
  {i \in 1..Len(hist) : hist[i].kind = "ingest" /\ hist[i].dev # 0 /\ hist[i].code \notin {0, 200}}

\* C26: an ingestion whose transaction fails at any statement, the count read-back
\* after the sightings were written included, is answered 5xx with the fixed generic
\* body: one field, the message 'Internal Server Error', no headcount and no detail of
\* the error; only a committed ingestion answers with a headcount.
C26_GenericFailure ==
  /\ [](\A i \in FailedIngestions :
         /\ hist[i].code = 500
         /\ hist[i].fields = {"error"}
         /\ hist[i].error = "Internal Server Error")
  /\ [](\A i \in 1..Len(hist) :
         (hist[i].kind = "ingest" /\ "headcount" \in hist[i].fields) => i \in Committed)
  /\ [][\A p \in Procs :
          (pc[p] \in TxPcs /\ pc'[p] = "idle" /\ hist'[h[p].ing].code # 200) =>
            /\ hist'[h[p].ing].fields = {"error"}
            /\ hist'[h[p].ing].error = "Internal Server Error"
            /\ device_observations' = device_observations]_vars

\* a statement has failed after the tokens were written (their ids are used up) and
\* before the snapshot row was: nothing is stored and the answer is the generic one
C26_Witness ==
  \E i \in FailedIngestions :
    /\ hist[i].code = 500
    /\ hist[i].fields = {"error"}
    /\ hist[i].error = "Internal Server Error"
    /\ autoinc.tracked > 1
    /\ autoinc.crowd = 1
    /\ tracked_devices = {}
    /\ device_observations = <<>>
    /\ \A p \in Procs : pc[p] = "idle"

\* ------------------------------------------------------------------------ C27
\* C27: every registered device has exactly one threshold record once its registration
\* has ended, after any interleaving of registrations and threshold updates.
C27_OneThresholdRecord ==
  \A d \in devices :
    (\A p \in Procs : ~(pc[p] = "insertThreshold" /\ h[p].dev = d.id)) =>
      Cardinality({t \in threshold : t.device_id = d.id}) = 1

\* ------------------------------------------------------------------------ C29
\* the order of the severities: safe < normal < warning < danger
Rank(status) ==
  CASE status = "safe" -> 0
    [] status = "normal" -> 1
    [] status = "warning" -> 2
    [] status = "danger" -> 3

\* C29: for every threshold record, malformed ones (breakpoints missing or not
\* increasing) included, the severity does not decrease when the count grows:
\* c1 <= c2 implies getStatus(c1) <= getStatus(c2).
C29_Monotone ==
  (fnRes # <<>> /\ fnArgs.fn = "getStatus") =>
    \A c2 \in CountInputs :
      fnArgs.headcount <= c2 =>
        Rank(fnRes[1]) <= Rank(getStatus(c2, fnArgs.threshold))

\* a record whose danger breakpoint is below its warning and normal breakpoints: a count
\* between them is 'danger', and there are larger counts to compare it with
C29_Witness ==
  /\ fnRes = <<"danger">>
  /\ DOMAIN fnArgs.threshold = ThresholdFields
  /\ fnArgs.threshold.danger < fnArgs.threshold.normal
  /\ fnArgs.threshold.normal < fnArgs.threshold.warning
  /\ fnArgs.headcount >= fnArgs.threshold.danger
  /\ fnArgs.headcount < fnArgs.threshold.normal
  /\ \E c2 \in CountInputs : c2 >= fnArgs.threshold.warning

\* ------------------------------------------------------------------------ C28
\* the distinct identifiers among sightings whose age at instant now, now - at, is
\* above lo and at most hi
TokensAged(sightings, now, lo, hi) ==
  {x.mac : x \in {y \in sightings : now - y.at > lo /\ now - y.at <= hi}}

\* C28: a sighting recorded at t counts in the current window of a query made at
\* instant now while now <= t + w, only in the previous window while
\* t + w < now <= t + 2w, and in neither afterwards: with no new sighting every query
\* later than t + w reports current 0 and every query later than t + 2w previous 0.
C28_AgesOut ==
  \A p \in Procs :
    LET own == SightingsBy(p, h[p].dev)
    IN  /\ pc[p] \in {"latestNeighbors", "latestGetCur", "latestGetPrev", "latestInfos"} =>
             h[p].headcount = Cardinality(TokensAged(own, h[p].tCount, -1, WindowSeconds))
        /\ pc[p] = "latestInfos" =>
             \A k \in 1..Len(Neighbors(p)) :
               LET s == SightingsBy(p, Neighbors(p)[k].device_id)
               IN  /\ Neighbors(p)[k].current =
                        Cardinality(TokensAged(s, h[p].tCur, -1, WindowSeconds))
                   /\ Neighbors(p)[k].previous =
                        Cardinality(TokensAged(s, h[p].tPrev, WindowSeconds,
                                               2 * WindowSeconds))
                   /\ (\A x \in s : h[p].tCur > x.at + WindowSeconds) =>
                        Neighbors(p)[k].current = 0
                   /\ (\A x \in s : h[p].tPrev > x.at + 2 * WindowSeconds) =>
                        Neighbors(p)[k].previous = 0

\* a sighting of the sensor that a read made more than two windows later reports in
\* neither window
C28_Witness ==
  \E p \in Procs :
    /\ pc[p] = "latestInfos"
    /\ SightingsBy(p, h[p].dev) # {}
    /\ \A x \in SightingsBy(p, h[p].dev) : h[p].tCount > x.at + 2 * WindowSeconds
    /\ h[p].headcount = 0
    /\ \A k \in 1..Len(Neighbors(p)) :
         Neighbors(p)[k].current = 0 /\ Neighbors(p)[k].previous = 0

====
